---- MODULE Spec2Model ----
(***************************************************************************)
(* Takam Tourism single-page application (src/App.tsx).                    *)
(*                                                                         *)
(* The model covers the application shell (App: tab, landmark, preview,    *)
(* loading flag, village/weather, live location and altitude), the three   *)
(* asynchronous flows it starts (startup village load, image upload and    *)
(* identification, geolocation one-shot and watch) and the SatelliteMapView*)
(* component with the Leaflet objects it creates.                          *)
(*                                                                         *)
(* Optional values (null in the source) are sequences of length 0 or 1:    *)
(* Null is <<>>, a present value v is <<v>>.  References to Leaflet        *)
(* objects are positive integers, 0 is the null reference.                 *)
(***************************************************************************)
EXTENDS Integers, Sequences, FiniteSets, TLC

\* ------------------------------------------------------------------ bounds

\* Uploads that may be started in one behaviour.
MaxUploads == 2
\* Position readings the platform may deliver in one behaviour.
MaxReadings == 2
\* Leaflet maps that may exist before the trek tab can no longer be opened.
MaxMounts == 2
\* longest waypoint sequence given to calculateTotalDistance
MaxPoints == 4

\* ------------------------------------------------------------ plain values

Null == <<>>
Some(v) == <<v>>
IsNull(o) == o = <<>>
Val(o) == o[1]

Tabs == {"home", "scanner", "trek", "about"}

\* The fixed trail.  Coordinates are degrees scaled by 10^4.
MOCK_TREK_DATA ==
  << [day |-> 1, altitude |-> 830,  label |-> "Beni",          lat |-> 283444, lng |-> 835651],
     [day |-> 2, altitude |-> 1200, label |-> "Darbang",       lat |-> 284067, lng |-> 834000],
     [day |-> 3, altitude |-> 1670, label |-> "Takam Village", lat |-> 284230, lng |-> 833333],
     [day |-> 4, altitude |-> 2200, label |-> "Muri Village",  lat |-> 284833, lng |-> 832500],
     [day |-> 5, altitude |-> 3100, label |-> "Boghara",       lat |-> 285333, lng |-> 832333],
     [day |-> 6, altitude |-> 3660, label |-> "Dobang",        lat |-> 285833, lng |-> 832167],
     [day |-> 7, altitude |-> 4740, label |-> "Dhaulagiri BC", lat |-> 286750, lng |-> 834722] >>

\* useState default of currentLocation: Takam.
DefaultLocation == [lat |-> 284230, lng |-> 833333]

\* What the platform may report: two places; the altitude is absent or given
\* in tenths of a metre (one value rounds down, one rounds up, one is
\* negative and exactly on .5).
ReportedPlaces == {[lat |-> 283444, lng |-> 835651], [lat |-> 286750, lng |-> 834722]}
ReportedAltitudes == {Null, Some(16704), Some(16705), Some(-25)}
Readings == [coords : ReportedPlaces, altitude : ReportedAltitudes]

\* Files the user may select: MIME type and base64 payload.
Files == {[mime |-> "image/jpeg", b64 |-> "AAAA"], [mime |-> "image/png", b64 |-> "BBBB"]}

\* MountainInfo values the identification service may return.
Landmarks ==
  {[name |-> "Poon Hill", elevation |-> "3210m"],
   [name |-> "Dhaulagiri", elevation |-> "8167m"]}

\* VillageInfo the insight service returns, and the texts the search returns.
VillageData == [name |-> "Takam", region |-> "Myagdi"]
SearchTexts == {<<"s", "u", "n">>, [i \in 1..101 |-> "x"]}

\* ------------------------------------------------------------------- state

VARIABLES
  \* App state (useState) and whether App is mounted
  appMounted, activeTab, landmark, village, weatherData, loading,
  currentAltitude, currentLocation, previewImage,
  \* asynchronous work in flight
  villagePc, uploads, nextUpload, alerts,
  \* geolocation
  hasGeo, oneShotPending, watchId, clearedWatches, nReadings,
  \* SatelliteMapView instance and the Leaflet objects
  viewMounted, leafletMap, userMarker, trailLayer, effectDeps,
  mapObj, liveMaps, nextId, instanceMaps,
  \* record of the last step taken (history, not program state)
  last, lastReading, lastAltReading,
  \* the argument and the result of the last calculateTotalDistance call
  points, distanceText,
  \* the image whose identification returned the stored landmark (history)
  landmarkSource

shellVars == <<appMounted, activeTab, landmark, village, weatherData, loading,
               currentAltitude, currentLocation, previewImage>>
asyncVars == <<villagePc, uploads, nextUpload, alerts>>
geoVars == <<hasGeo, oneShotPending, watchId, clearedWatches, nReadings>>
viewVars == <<viewMounted, leafletMap, userMarker, trailLayer,
              effectDeps, mapObj, liveMaps, nextId, instanceMaps>>
posHist == <<lastReading, lastAltReading>>
histVars == <<last, posHist>>
distVars == <<points, distanceText>>
scanHist == <<landmarkSource>>
vars == <<shellVars, asyncVars, geoVars, viewVars, histVars, distVars, scanHist>>

\* ------------------------------------------------------- pure helper code

Min(a, b) == IF a <= b THEN a ELSE b
Max(a, b) == IF a >= b THEN a ELSE b

\* Math.round on a value given in tenths: the nearest integer, ties towards
\* +infinity (floor(x + 0.5)).
MathRound_truncates(tenths) == IF tenths >= 0 THEN tenths \div 10 ELSE -((-tenths) \div 10)
MathRound(tenths) == (tenths + 5) \div 10

\* FileReader.readAsDataURL: "data:<mime>;base64,<payload>", kept as its two
\* sides of the comma.
readAsDataURL(file) == [header |-> <<"data:", file.mime, ";base64">>, payload |-> file.b64]

\* fullBase64.split(',')[1]
SplitComma1(dataUrl) == dataUrl.payload

\* String.prototype.slice(0, n)
SliceEnd == 100
Slice0(text, n) == SubSeq(text, 1, Min(Len(text), n))

\* L.Polyline.getBounds(): the bounding box of the points.
RECURSIVE FoldBounds(_, _, _)
FoldBounds(pts, i, b) ==
  IF i > Len(pts) THEN b
  ELSE FoldBounds(pts, i + 1,
         [south |-> Min(b.south, pts[i].lat), west |-> Min(b.west, pts[i].lng),
          north |-> Max(b.north, pts[i].lat), east |-> Max(b.east, pts[i].lng)])
getBounds(pts) ==
  FoldBounds(pts, 2, [south |-> pts[1].lat, west |-> pts[1].lng,
                      north |-> pts[1].lat, east |-> pts[1].lng])

\* trail.map(p => L.latLng(p.lat, p.lng))
TrailLatLngs(trail) == [i \in 1..Len(trail) |-> [lat |-> trail[i].lat, lng |-> trail[i].lng]]

\* ------------------------------------------------- calculateTotalDistance

\* The waypoints the sequences are built from, and the sequences.
Waypoints == {MOCK_TREK_DATA[1], MOCK_TREK_DATA[2], MOCK_TREK_DATA[3]}
TrailInputs == UNION {[1..n -> Waypoints] : n \in 0..MaxPoints}

\* The integer square root, by bisection: lo * lo <= x < hi * hi.
RECURSIVE SqrtBetween(_, _, _)
SqrtBetween(x, lo, hi) ==
  IF hi - lo <= 1 THEN lo
  ELSE LET mid == (lo + hi) \div 2
       IN  IF mid * mid <= x THEN SqrtBetween(x, mid, hi) ELSE SqrtBetween(x, lo, mid)
ISqrt(x) == SqrtBetween(x, 0, 40000)
Abs(x) == IF x < 0 THEN 0 - x ELSE x

\* L.latLng(p.lat, p.lng)
latLng(p) == [lat |-> p.lat, lng |-> p.lng]

\* p1.distanceTo(p2) of Leaflet: the great-circle distance on a sphere of
\* radius 6371000 m.  Here in whole metres on the tangent plane at the trail's
\* latitude: 1/10000 degree is 11.119 m of latitude and, at 28.4 degrees
\* north, 9.781 m of longitude.
distanceTo(p1, p2) ==
  LET dy == (Abs(p1.lat - p2.lat) * 11119) \div 1000
      dx == (Abs(p1.lng - p2.lng) * 9781) \div 1000
  IN  ISqrt(dx * dx + dy * dy)

\* for (let i = 0; i < limit; i++) total += p1.distanceTo(p2)
RECURSIVE SumLoop(_, _, _, _)
SumLoop(pts, i, limit, total) ==
  IF i < limit
  THEN SumLoop(pts, i + 1, limit,
               total + distanceTo(latLng(pts[i + 1]), latLng(pts[i + 2])))
  ELSE total

\* Decimal digits of a natural number, as a sequence of characters.
DigitChar(d) == <<"0", "1", "2", "3", "4", "5", "6", "7", "8", "9">>[d + 1]
RECURSIVE ToDigits(_)
ToDigits(n) ==
  IF n < 10 THEN <<DigitChar(n)>> ELSE ToDigits(n \div 10) \o <<DigitChar(n % 10)>>

\* (total / 1000).toFixed(2) for a total in whole metres: the nearest
\* hundredth of a kilometre, the larger one on a tie, printed with two
\* fraction digits.
toFixed2(total) ==
  LET n == (total + 5) \div 10
  IN  ToDigits(n \div 100) \o <<".", DigitChar((n \div 10) % 10), DigitChar(n % 10)>>

calculateTotalDistance_skipsLastPair(pts) == toFixed2(SumLoop(pts, 0, Len(pts) - 2, 0))
calculateTotalDistance(pts) == toFixed2(SumLoop(pts, 0, Len(pts) - 1, 0))

\* SatelliteMapView renders {calculateTotalDistance(trail)}.
RenderTotalDistance(trail) ==
  /\ points' = trail
  /\ distanceText' = Some(calculateTotalDistance(trail))
  /\ last' = [op |-> "totalDistance"]
  /\ UNCHANGED scanHist
  /\ UNCHANGED <<shellVars, asyncVars, geoVars, viewVars, posHist>>

\* What the rendered page offers.
UploadControlRendered ==
  activeTab = "home" \/ (activeTab = "scanner" /\ IsNull(landmark))
ScanNextRendered == activeTab = "scanner" /\ ~IsNull(landmark)
LoadingOverlayShown == loading

\* Every stored value of the shell except the loading flag.
Snapshot ==
  [landmark |-> landmark, previewImage |-> previewImage, activeTab |-> activeTab,
   village |-> village, weatherData |-> weatherData,
   currentLocation |-> currentLocation, currentAltitude |-> currentAltitude]

\* --------------------------------------------- SatelliteMapView, Leaflet

\* The props the shell passes to the view on every render.
ViewProps == [lat |-> currentLocation.lat, lng |-> currentLocation.lng]

\* A tab change re-renders App: the view is mounted when the trek tab becomes
\* active (fresh refs, effect not yet run) and unmounted when it stops being
\* active.  The component has no cleanup: its refs are dropped, the Leaflet
\* map they pointed to is not removed.
MountView ==
  /\ viewMounted' = TRUE
  /\ instanceMaps' = 0
  /\ leafletMap' = 0 /\ userMarker' = 0 /\ trailLayer' = 0
  /\ effectDeps' = Null
  /\ mapObj' = Null
  /\ UNCHANGED <<liveMaps, nextId>>
UnmountView ==
  /\ viewMounted' = FALSE
  /\ leafletMap' = 0 /\ userMarker' = 0 /\ trailLayer' = 0
  /\ effectDeps' = Null
  /\ mapObj' = Null
  /\ UNCHANGED <<liveMaps, nextId, instanceMaps>>
CommitTab(t) ==
  IF t = "trek" /\ ~viewMounted THEN MountView
  ELSE IF t # "trek" /\ viewMounted THEN UnmountView
  ELSE UNCHANGED viewVars

\* The Leaflet objects one initialization creates, with fresh ids id0, id0+1, ...:
\* the map (camera set by setView, then by fitBounds), the tile layer, the
\* user marker, the trail polyline and one marker per waypoint.
TileLayer == [kind |-> "tile", url |-> "World_Imagery/MapServer/tile/{z}/{y}/{x}", maxZoom |-> 19]
UserMarkerLayer(lat, lng) ==
  [kind |-> "marker", icon |-> "custom-user-icon", latlng |-> [lat |-> lat, lng |-> lng],
   zIndexOffset |-> 1000]
PolylineLayer(trail) ==
  [kind |-> "polyline", latlngs |-> TrailLatLngs(trail), color |-> "#10b981"]
WaypointLayer(p) ==
  [kind |-> "marker", icon |-> "wp-icon", latlng |-> [lat |-> p.lat, lng |-> p.lng],
   label |-> p.label]
NewLayers(lat, lng, trail, id0) ==
  [i \in (id0 + 1)..(id0 + 3 + Len(trail)) |->
     IF i = id0 + 1 THEN TileLayer
     ELSE IF i = id0 + 2 THEN UserMarkerLayer(lat, lng)
     ELSE IF i = id0 + 3 THEN PolylineLayer(trail)
     ELSE WaypointLayer(trail[i - (id0 + 3)])]
SetViewCamera(lat, lng) == [op |-> "setView", center |-> [lat |-> lat, lng |-> lng], zoom |-> 13]
FitBoundsCamera(trail) ==
  [op |-> "fitBounds", bounds |-> getBounds(TrailLatLngs(trail)), padding |-> <<50, 50>>]
InitialCamera_keepsSetView(lat, lng, trail) == SetViewCamera(lat, lng)
\* L.map(...).setView([lat, lng], 13) first, fitBounds(...) last: the camera
\* the initialization leaves is the later of the two.
InitialCamera(lat, lng, trail) ==
  LET afterSetView == SetViewCamera(lat, lng)
      afterFitBounds == FitBoundsCamera(trail)
  IN afterFitBounds
NewMapObject(lat, lng, trail, id0) ==
  [id |-> id0, camera |-> InitialCamera(lat, lng, trail),
   layers |-> NewLayers(lat, lng, trail, id0)]

\* `mapRef.current && !leafletMap.current`: the container exists as long as
\* the view is mounted.
NeedsInit_everyRun == viewMounted
NeedsInit == viewMounted /\ leafletMap = 0

SetUserLatLng_keepsPosition(m, marker, lat, lng) == m
\* userMarker.current?.setLatLng([lat, lng]) on map object m.
SetUserLatLng(m, marker, lat, lng) ==
  IF marker = 0 THEN m
  ELSE [m EXCEPT !.layers[marker].latlng = [lat |-> lat, lng |-> lng]]

\* The useEffect of SatelliteMapView.  React runs it after the first render of
\* an instance and after every render in which lat, lng or trail changed.
MapEffect ==
  /\ viewMounted
  /\ effectDeps # Some(ViewProps)
  /\ LET lat == ViewProps.lat
         lng == ViewProps.lng
     IN IF NeedsInit
        THEN /\ leafletMap' = nextId
             /\ userMarker' = nextId + 2
             /\ trailLayer' = nextId + 3
             /\ nextId' = nextId + 4 + Len(MOCK_TREK_DATA)
             /\ liveMaps' = liveMaps \cup {nextId}
             /\ instanceMaps' = instanceMaps + 1
             /\ mapObj' = Some(SetUserLatLng(NewMapObject(lat, lng, MOCK_TREK_DATA, nextId),
                                             nextId + 2, lat, lng))
        ELSE /\ mapObj' = IF leafletMap # 0
                          THEN Some(SetUserLatLng(Val(mapObj), userMarker, lat, lng))
                          ELSE mapObj
             /\ UNCHANGED <<leafletMap, userMarker, trailLayer, nextId, liveMaps, instanceMaps>>
  /\ effectDeps' = Some(ViewProps)
  /\ UNCHANGED distVars
  /\ UNCHANGED scanHist
  /\ last' = [op |-> "mapEffect", created |-> NeedsInit]
  /\ UNCHANGED <<viewMounted, shellVars, asyncVars, geoVars, posHist>>

handleRecenter_staleProps ==
  /\ viewMounted
  /\ IF leafletMap # 0
     THEN mapObj' = Some([Val(mapObj) EXCEPT
                            !.camera = [op |-> "flyTo",
                                        center |-> IF IsNull(effectDeps) THEN ViewProps
                                                   ELSE Val(effectDeps),
                                        zoom |-> 15]])
     ELSE UNCHANGED mapObj
  /\ UNCHANGED distVars
  /\ UNCHANGED scanHist
  /\ last' = [op |-> "recenter"]
  /\ UNCHANGED <<viewMounted, leafletMap, userMarker, trailLayer, effectDeps,
                 liveMaps, nextId, instanceMaps, shellVars, asyncVars, geoVars, posHist>>

\* leafletMap.current?.flyTo([lat, lng], 15)
handleRecenter_movesMarker ==
  /\ viewMounted
  /\ IF leafletMap # 0
     THEN mapObj' = Some(SetUserLatLng(
                      [Val(mapObj) EXCEPT !.camera = [op |-> "flyTo", center |-> ViewProps, zoom |-> 15]],
                      userMarker, DefaultLocation.lat, DefaultLocation.lng))
     ELSE UNCHANGED mapObj
  /\ UNCHANGED distVars
  /\ UNCHANGED scanHist
  /\ last' = [op |-> "recenter"]
  /\ UNCHANGED <<viewMounted, leafletMap, userMarker, trailLayer, effectDeps,
                 liveMaps, nextId, instanceMaps, shellVars, asyncVars, geoVars, posHist>>
handleRecenter ==
  /\ viewMounted
  /\ IF leafletMap # 0
     THEN mapObj' = Some([Val(mapObj) EXCEPT
                            !.camera = [op |-> "flyTo", center |-> ViewProps, zoom |-> 15]])
     ELSE UNCHANGED mapObj
  /\ UNCHANGED distVars
  /\ UNCHANGED scanHist
  /\ last' = [op |-> "recenter"]
  /\ UNCHANGED <<viewMounted, leafletMap, userMarker, trailLayer, effectDeps,
                 liveMaps, nextId, instanceMaps, shellVars, asyncVars, geoVars, posHist>>

\* if (trailLayer.current) leafletMap.current?.flyToBounds(getBounds(), padding 50)
showEntireTrail ==
  /\ viewMounted
  /\ IF trailLayer # 0 /\ leafletMap # 0
     THEN mapObj' = Some([Val(mapObj) EXCEPT
                            !.camera = [op |-> "flyToBounds",
                                        bounds |-> getBounds(Val(mapObj).layers[trailLayer].latlngs),
                                        padding |-> <<50, 50>>]])
     ELSE UNCHANGED mapObj
  /\ UNCHANGED distVars
  /\ UNCHANGED scanHist
  /\ last' = [op |-> "fitTrail"]
  /\ UNCHANGED <<viewMounted, leafletMap, userMarker, trailLayer, effectDeps,
                 liveMaps, nextId, instanceMaps, shellVars, asyncVars, geoVars, posHist>>

\* ------------------------------------------------------ application shell

\* Nothing in App.tsx disables a control while loading is true: the overlay
\* is a sibling element without handlers, the handlers do not read the flag
\* and the buttons stay operable.  The guards of the user actions are
\* therefore only that App is mounted and that the control is rendered.

\* onClick={() => setActiveTab(t)}: the nav buttons, the header, the home card.
SetActiveTab(t) ==
  /\ appMounted
  /\ (t = "trek" /\ ~viewMounted) => Cardinality(liveMaps) < MaxMounts
  /\ activeTab' = t
  /\ CommitTab(t)
  /\ UNCHANGED distVars
  /\ UNCHANGED scanHist
  /\ last' = [op |-> "setActiveTab"]
  /\ UNCHANGED <<appMounted, landmark, village, weatherData, loading, currentAltitude,
                 currentLocation, previewImage, asyncVars, geoVars, posHist>>

ScanNext_keepsPreview ==
  /\ appMounted
  /\ ScanNextRendered
  /\ landmark' = Null
  /\ UNCHANGED distVars
  /\ landmarkSource' = Null
  /\ last' = [op |-> "scanNext"]
  /\ UNCHANGED <<appMounted, activeTab, village, weatherData, loading, currentAltitude,
                 currentLocation, previewImage, asyncVars, geoVars, viewVars, posHist>>

\* onClick={() => { setLandmark(null); setPreviewImage(null); }}
ScanNext ==
  /\ appMounted
  /\ ScanNextRendered
  /\ landmark' = Null
  /\ previewImage' = Null
  /\ UNCHANGED distVars
  /\ landmarkSource' = Null
  /\ last' = [op |-> "scanNext"]
  /\ UNCHANGED <<appMounted, activeTab, village, weatherData, loading, currentAltitude,
                 currentLocation, asyncVars, geoVars, viewVars, posHist>>

\* handleFileUpload up to reader.readAsDataURL(file).  fileOpt is
\* event.target.files?.[0].  The record of an upload in flight holds what its
\* closure holds (file, base64Data) and, as history, the shell's stored values
\* when the upload started (atStart) and the landmark and tab when the
\* identification call was issued (atCall).
handleFileUpload(fileOpt) ==
  /\ appMounted
  /\ UploadControlRendered
  /\ nextUpload <= MaxUploads
  /\ UNCHANGED distVars
  /\ UNCHANGED scanHist
  /\ IF IsNull(fileOpt)
     THEN /\ last' = [op |-> "uploadNoFile"]
          /\ UNCHANGED <<loading, uploads, nextUpload>>
     ELSE /\ loading' = TRUE
          /\ uploads' = [u \in DOMAIN uploads \cup {nextUpload} |->
                           IF u = nextUpload
                           THEN [file |-> Val(fileOpt), phase |-> "reading",
                                 base64Data |-> Null, atStart |-> Snapshot,
                                 atCall |-> Null]
                           ELSE uploads[u]]
          /\ nextUpload' = nextUpload + 1
          /\ last' = [op |-> "uploadStarted", id |-> nextUpload]
  /\ UNCHANGED <<appMounted, activeTab, landmark, village, weatherData, currentAltitude,
                 currentLocation, previewImage, villagePc, alerts, geoVars, viewVars,
                 posHist>>

\* reader.onload up to the await: the preview is stored, the payload after the
\* comma is handed to identifyLandmark.  A set-state call on an unmounted App
\* does nothing.
readerOnload(u) ==
  /\ u \in DOMAIN uploads
  /\ uploads[u].phase = "reading"
  /\ LET fullBase64 == readAsDataURL(uploads[u].file)
         shown == IF appMounted THEN Some(fullBase64) ELSE previewImage
     IN /\ previewImage' = shown
        /\ uploads' = [uploads EXCEPT
                         ![u].phase = "calling",
                         ![u].base64Data = Some(SplitComma1(fullBase64)),
                         ![u].atCall = Some([landmark |-> landmark, activeTab |-> activeTab])]
  /\ UNCHANGED distVars
  /\ UNCHANGED scanHist
  /\ last' = [op |-> "readerOnload", id |-> u, loading |-> loading]
  /\ UNCHANGED <<appMounted, activeTab, landmark, village, weatherData, loading,
                 currentAltitude, currentLocation, nextUpload, villagePc, alerts, geoVars,
                 viewVars, posHist>>

\* The read fails: FileReader fires "error", for which handleFileUpload
\* registers no handler, so nothing of the upload runs again.
readerOnerror(u) ==
  /\ u \in DOMAIN uploads
  /\ uploads[u].phase = "reading"
  /\ uploads' = [v \in DOMAIN uploads \ {u} |-> uploads[v]]
  /\ UNCHANGED distVars
  /\ UNCHANGED scanHist
  /\ last' = [op |-> "readerOnerror", id |-> u]
  /\ UNCHANGED <<shellVars, nextUpload, villagePc, alerts, geoVars, viewVars, posHist>>

Without(u) == [v \in DOMAIN uploads \ {u} |-> uploads[v]]

\* identifyLandmark resolves with info: setLandmark(info), setActiveTab('scanner'),
\* then the finally block.
identifyResolved_keepsTab(u, info) ==
  /\ u \in DOMAIN uploads
  /\ uploads[u].phase = "calling"
  /\ IF appMounted
     THEN /\ landmark' = Some(info)
          /\ loading' = FALSE
          /\ landmarkSource' = Some(readAsDataURL(uploads[u].file))
          /\ UNCHANGED <<activeTab, viewVars>>
     ELSE UNCHANGED <<landmark, activeTab, loading, viewVars, landmarkSource>>
  /\ uploads' = Without(u)
  /\ UNCHANGED distVars
  /\ last' = [op |-> "identifyResolved", id |-> u, info |-> info,
               tabBefore |-> activeTab, landmarkBefore |-> landmark]
  /\ UNCHANGED <<appMounted, village, weatherData, currentAltitude, currentLocation,
                 previewImage, nextUpload, villagePc, alerts, geoVars, posHist>>
identifyResolved(u, info) ==
  /\ u \in DOMAIN uploads
  /\ uploads[u].phase = "calling"
  /\ IF appMounted
     THEN /\ landmark' = Some(info)
          /\ activeTab' = "scanner"
          /\ CommitTab("scanner")
          /\ loading' = FALSE
          /\ landmarkSource' = Some(readAsDataURL(uploads[u].file))
     ELSE UNCHANGED <<landmark, activeTab, loading, viewVars, landmarkSource>>
  /\ uploads' = Without(u)
  /\ UNCHANGED distVars
  /\ last' = [op |-> "identifyResolved", id |-> u, info |-> info,
               tabBefore |-> activeTab, landmarkBefore |-> landmark]
  /\ UNCHANGED <<appMounted, village, weatherData, currentAltitude, currentLocation,
                 previewImage, nextUpload, villagePc, alerts, geoVars, posHist>>

\* identifyLandmark rejects: alert(...), then the finally block.
identifyRejected(u) ==
  /\ u \in DOMAIN uploads
  /\ uploads[u].phase = "calling"
  /\ alerts' = alerts + 1
  /\ loading' = IF appMounted THEN FALSE ELSE loading
  /\ uploads' = Without(u)
  /\ UNCHANGED distVars
  /\ UNCHANGED scanHist
  /\ last' = [op |-> "identifyRejected", id |-> u, atStart |-> uploads[u].atStart,
               atCall |-> Val(uploads[u].atCall), alertsBefore |-> alerts]
  /\ UNCHANGED <<appMounted, activeTab, landmark, village, weatherData, currentAltitude,
                 currentLocation, previewImage, nextUpload, villagePc, geoVars, viewVars,
                 posHist>>

insightsResolved_storesNothing ==
  /\ villagePc = "getVillageInsights"
  /\ village' = village
  /\ villagePc' = "getSearchInfo"
  /\ UNCHANGED distVars
  /\ UNCHANGED scanHist
  /\ last' = [op |-> "insightsResolved"]
  /\ UNCHANGED <<appMounted, activeTab, landmark, weatherData, loading, currentAltitude,
                 currentLocation, previewImage, uploads, nextUpload, alerts, geoVars,
                 viewVars, posHist>>

\* loadVillageData, started by the mount effect (setLoading(true) is part of
\* the initial state).  villagePc is the await it is suspended at.
insightsResolved ==
  /\ villagePc = "getVillageInsights"
  /\ village' = IF appMounted THEN Some(VillageData) ELSE village
  /\ villagePc' = "getSearchInfo"
  /\ UNCHANGED distVars
  /\ UNCHANGED scanHist
  /\ last' = [op |-> "insightsResolved"]
  /\ UNCHANGED <<appMounted, activeTab, landmark, weatherData, loading, currentAltitude,
                 currentLocation, previewImage, uploads, nextUpload, alerts, geoVars,
                 viewVars, posHist>>
searchResolved(text) ==
  /\ villagePc = "getSearchInfo"
  /\ weatherData' = IF appMounted
                    THEN Some([temp |-> 16, desc |-> Slice0(text, SliceEnd) \o <<".", ".", ".">>])
                    ELSE weatherData
  /\ loading' = IF appMounted THEN FALSE ELSE loading
  /\ villagePc' = "done"
  /\ UNCHANGED distVars
  /\ UNCHANGED scanHist
  /\ last' = [op |-> "searchResolved"]
  /\ UNCHANGED <<appMounted, activeTab, landmark, village, currentAltitude, currentLocation,
                 previewImage, uploads, nextUpload, alerts, geoVars, viewVars, posHist>>
\* Either await rejects: console.error, then the finally block.
villageLoadRejected ==
  /\ villagePc \in {"getVillageInsights", "getSearchInfo"}
  /\ loading' = IF appMounted THEN FALSE ELSE loading
  /\ UNCHANGED distVars
  /\ UNCHANGED scanHist
  /\ last' = [op |-> "villageLoadRejected", at |-> villagePc]
  /\ villagePc' = "done"
  /\ UNCHANGED <<appMounted, activeTab, landmark, village, weatherData, currentAltitude,
                 currentLocation, previewImage, uploads, nextUpload, alerts, geoVars,
                 viewVars, posHist>>

\* ------------------------------------------------------------ geolocation

\* if (pos.coords.altitude !== null) setCurrentAltitude(Math.round(altitude))
NextAltitude_supersedes(cur, r) ==
  IF IsNull(r.altitude) THEN Null ELSE Some(MathRound(Val(r.altitude)))
NextAltitude(cur, r) ==
  IF IsNull(r.altitude) THEN cur ELSE Some(MathRound(Val(r.altitude)))

\* What both position callbacks do with a reading r, and the history of the
\* readings delivered to a mounted App.
StorePosition(r) ==
  /\ currentLocation' = IF appMounted THEN r.coords ELSE currentLocation
  /\ currentAltitude' = IF appMounted THEN NextAltitude(currentAltitude, r) ELSE currentAltitude
  /\ nReadings' = nReadings + 1
  /\ lastReading' = IF appMounted THEN Some(r) ELSE lastReading
  /\ lastAltReading' = IF appMounted /\ ~IsNull(r.altitude) THEN Some(r) ELSE lastAltReading

\* The success callback of navigator.geolocation.getCurrentPosition.  The
\* request is not cancelled when App unmounts.
getCurrentPositionCallback(r) ==
  /\ oneShotPending
  /\ nReadings < MaxReadings
  /\ StorePosition(r)
  /\ oneShotPending' = FALSE
  /\ UNCHANGED distVars
  /\ UNCHANGED scanHist
  /\ last' = [op |-> "oneShotPosition", reading |-> r, altitudeBefore |-> currentAltitude]
  /\ UNCHANGED <<appMounted, activeTab, landmark, village, weatherData, loading, previewImage,
                 asyncVars, hasGeo, watchId, clearedWatches, viewVars>>

\* getCurrentPosition fails: no error callback was passed.
getCurrentPositionError ==
  /\ oneShotPending
  /\ oneShotPending' = FALSE
  /\ UNCHANGED distVars
  /\ UNCHANGED scanHist
  /\ last' = [op |-> "oneShotError"]
  /\ UNCHANGED <<shellVars, asyncVars, hasGeo, watchId, clearedWatches, nReadings, viewVars,
                 posHist>>

WatchActive == watchId # 0 /\ watchId \notin clearedWatches

\* The success callback of navigator.geolocation.watchPosition.
watchPositionCallback(r) ==
  /\ WatchActive
  /\ nReadings < MaxReadings
  /\ StorePosition(r)
  /\ UNCHANGED distVars
  /\ UNCHANGED scanHist
  /\ last' = [op |-> "watchPosition", reading |-> r, altitudeBefore |-> currentAltitude]
  /\ UNCHANGED <<appMounted, activeTab, landmark, village, weatherData, loading, previewImage,
                 asyncVars, hasGeo, oneShotPending, watchId, clearedWatches, viewVars>>

\* The error callback of watchPosition: console.error(error).
watchPositionError ==
  /\ WatchActive
  /\ UNCHANGED distVars
  /\ UNCHANGED scanHist
  /\ last' = [op |-> "watchError"]
  /\ UNCHANGED <<shellVars, asyncVars, geoVars, viewVars, posHist>>

AppUnmount_keepsWatch ==
  /\ appMounted
  /\ appMounted' = FALSE
  /\ clearedWatches' = clearedWatches
  /\ IF viewMounted THEN UnmountView ELSE UNCHANGED viewVars
  /\ UNCHANGED distVars
  /\ UNCHANGED scanHist
  /\ last' = [op |-> "appUnmount"]
  /\ UNCHANGED <<activeTab, landmark, village, weatherData, loading, currentAltitude,
                 currentLocation, previewImage, asyncVars, hasGeo, oneShotPending, watchId,
                 nReadings, posHist>>

\* App is torn down: the watch effect's cleanup runs clearWatch(watchId), the
\* rendered tree (with a mounted SatelliteMapView) goes away.
AppUnmount ==
  /\ appMounted
  /\ appMounted' = FALSE
  /\ clearedWatches' = IF hasGeo THEN clearedWatches \cup {watchId} ELSE clearedWatches
  /\ IF viewMounted THEN UnmountView ELSE UNCHANGED viewVars
  /\ UNCHANGED distVars
  /\ UNCHANGED scanHist
  /\ last' = [op |-> "appUnmount"]
  /\ UNCHANGED <<activeTab, landmark, village, weatherData, loading, currentAltitude,
                 currentLocation, previewImage, asyncVars, hasGeo, oneShotPending, watchId,
                 nReadings, posHist>>

\* ---------------------------------------------------------- specification

\* App after its first render and its two mount effects: loadVillageData has
\* set loading and awaits getVillageInsights; when the platform has
\* geolocation the one-shot request is pending and the watch is subscribed.
Init ==
  /\ appMounted = TRUE
  /\ activeTab = "home"
  /\ landmark = Null /\ village = Null /\ weatherData = Null
  /\ loading = TRUE
  /\ currentAltitude = Null
  /\ currentLocation = DefaultLocation
  /\ previewImage = Null
  /\ villagePc = "getVillageInsights"
  /\ uploads = [u \in {} |-> Null]
  /\ nextUpload = 1
  /\ alerts = 0
  /\ hasGeo \in BOOLEAN
  /\ oneShotPending = hasGeo
  /\ watchId = IF hasGeo THEN 1 ELSE 0
  /\ clearedWatches = {}
  /\ nReadings = 0
  /\ viewMounted = FALSE /\ instanceMaps = 0
  /\ leafletMap = 0 /\ userMarker = 0 /\ trailLayer = 0
  /\ effectDeps = Null /\ mapObj = Null
  /\ liveMaps = {}
  /\ nextId = 1
  /\ last = [op |-> "init"]
  /\ lastReading = Null /\ lastAltReading = Null
  /\ points = <<>> /\ distanceText = Null
  /\ landmarkSource = Null

UserStep ==
  \/ \E t \in Tabs : SetActiveTab(t)
  \/ ScanNext
  \/ \E f \in {Null} \cup {Some(x) : x \in Files} : handleFileUpload(f)
UploadStep ==
  \/ \E u \in DOMAIN uploads : readerOnload(u)
  \/ \E u \in DOMAIN uploads : readerOnerror(u)
  \/ \E u \in DOMAIN uploads : \E info \in Landmarks : identifyResolved(u, info)
  \/ \E u \in DOMAIN uploads : identifyRejected(u)
VillageStep ==
  \/ insightsResolved
  \/ \E text \in SearchTexts : searchResolved(text)
  \/ villageLoadRejected
GeoStep ==
  \/ \E r \in Readings : getCurrentPositionCallback(r)
  \/ getCurrentPositionError
  \/ \E r \in Readings : watchPositionCallback(r)
  \/ watchPositionError
ViewStep ==
  \/ MapEffect
  \/ handleRecenter
  \/ showEntireTrail

\* The whole program.  The specifications below it are its parts: each leaves
\* out steps that neither read nor write what its own steps work on.
Next == UserStep \/ UploadStep \/ VillageStep \/ GeoStep \/ ViewStep \/ AppUnmount
Spec == Init /\ [][Next]_vars

\* The shell with its uploads and its startup load, on a platform with
\* geolocation; position readings and the map view's own steps touch none of
\* the values these steps read.
UploadNext == UserStep \/ UploadStep \/ VillageStep
UploadInit == Init /\ hasGeo
UploadSpec == UploadInit /\ [][UploadNext]_vars

\* Uploads and user actions alone, the startup load still awaiting its first
\* reply: its steps write neither the landmark nor the tab nor the preview.
ScanStep == UserStep \/ UploadStep
ScanSpec == UploadInit /\ [][ScanStep]_vars

\* The geolocation callbacks and the shell's teardown.
GeoNext == GeoStep \/ AppUnmount
GeoSpec == Init /\ [][GeoNext]_vars

\* What the mount effect started, in a shell that stays mounted: the startup
\* load and the position requests.
StartupNext == VillageStep \/ GeoStep
StartupSpec == Init /\ [][StartupNext]_vars

\* calculateTotalDistance on its own, over every waypoint sequence of at most
\* MaxPoints points.
DistanceNext == \E trail \in TrailInputs : RenderTotalDistance(trail)
DistanceSpec == Init /\ [][DistanceNext]_vars

\* The map view: tab changes mount and unmount it, position readings change
\* its props.
MapNext ==
  \/ \E t \in Tabs : SetActiveTab(t)
  \/ \E r \in Readings : watchPositionCallback(r)
  \/ ViewStep
  \/ AppUnmount
MapSpec == Init /\ [][MapNext]_vars

\* ------------------------------------------------------------------ claims

CallsInFlight == {u \in DOMAIN uploads : uploads[u].phase = "calling"}

\* C1: right after an identification call settles successfully, the stored
\* landmark is exactly the value the service returned and the active tab is
\* 'scanner', whatever the tab and the landmark were before.
C1_SuccessStoresResultAndShowsScanner ==
  (last.op = "identifyResolved" /\ appMounted) =>
    (landmark = Some(last.info) /\ activeTab = "scanner")
\* A success that arrives on the about tab and replaces a different landmark.
C1_Witness ==
  /\ last.op = "identifyResolved"
  /\ last.tabBefore = "about"
  /\ ~IsNull(last.landmarkBefore)
  /\ last.landmarkBefore # landmark

\* C2: right after an identification call fails, one more alert has been
\* shown, the landmark and the active tab are what they were when the call
\* was issued, and loading is false.
C2_FailureLeavesLandmarkAndTab ==
  last.op = "identifyRejected" =>
    /\ alerts = last.alertsBefore + 1
    /\ landmark = last.atCall.landmark
    /\ activeTab = last.atCall.activeTab
    /\ loading = FALSE

\* C3: right after an identification call fails, every stored value other
\* than the loading flag equals its value from when the upload started.
C3_FailureLeavesStateUnchanged ==
  last.op = "identifyRejected" => Snapshot = last.atStart

\* C4: every started upload is eventually followed by loading being false.
\* Stated on the final result: once an upload has been started and nothing
\* that could still clear the flag is pending (no file read, no
\* identification call, the startup load over), loading is false.
C4_StartedUploadsEndNotLoading ==
  (nextUpload > 1 /\ DOMAIN uploads = {} /\ villagePc = "done") => loading = FALSE

\* C5: at most one identification call is in flight.
C5_AtMostOneCallInFlight == Cardinality(CallsInFlight) <= 1

\* The layers of the current map other than the user marker, by id.
StaticLayers ==
  IF IsNull(mapObj) THEN <<>>
  ELSE [i \in DOMAIN Val(mapObj).layers \ {userMarker} |-> Val(mapObj).layers[i]]
LayersOfKind(kind, icon) ==
  {i \in DOMAIN Val(mapObj).layers :
     /\ Val(mapObj).layers[i].kind = kind
     /\ (kind = "marker" => Val(mapObj).layers[i].icon = icon)}
UserMarkerLatLng == Val(mapObj).layers[userMarker].latlng
Camera == Val(mapObj).camera

\* A mounted view that has a map has created exactly one map, holding one
\* tile layer, one trail polyline, one marker per waypoint and one user marker.
C6_CreatedOnce ==
  (viewMounted /\ leafletMap # 0) =>
    /\ instanceMaps = 1
    /\ ~IsNull(mapObj) /\ Val(mapObj).id = leafletMap
    /\ leafletMap \in liveMaps
    /\ Cardinality(LayersOfKind("tile", "")) = 1
    /\ LayersOfKind("polyline", "") = {trailLayer}
    /\ Cardinality(LayersOfKind("marker", "wp-icon")) = Len(MOCK_TREK_DATA)
    /\ LayersOfKind("marker", "custom-user-icon") = {userMarker}
\* C6: within one mounted view the map, the tile layer, the trail polyline
\* and the waypoint markers are created exactly once, and no step that leaves
\* the view mounted (a live-location update and the effect run that follows
\* it among them) changes the identity of the map or the identity or content
\* of the tile layer, the polyline and the waypoint markers; only the camera
\* actions change the camera.
C6_MapCreatedOnceUpdatesMoveOnlyMarker ==
  /\ []C6_CreatedOnce
  /\ [][(leafletMap # 0 /\ viewMounted') =>
          /\ leafletMap' = leafletMap
          /\ userMarker' = userMarker
          /\ trailLayer' = trailLayer
          /\ liveMaps' = liveMaps
          /\ StaticLayers' = StaticLayers
          /\ (last'.op \notin {"recenter", "fitTrail"} => Camera' = Camera)]_vars
\* The effect has run again after a position update and moved the marker.
C6_Witness ==
  /\ viewMounted /\ leafletMap # 0
  /\ last.op = "mapEffect" /\ ~last.created
  /\ ~IsNull(lastReading)
  /\ UserMarkerLatLng = Val(lastReading).coords
  /\ instanceMaps = 1

\* C7: every Leaflet map that was created and not removed belongs to the
\* view that is mounted now.
C7_NoMapOutlivesItsView ==
  \A m \in liveMaps : viewMounted /\ leafletMap = m

\* C8: a Recenter or Fit-trail step changes nothing but the camera: the
\* layers (polyline, waypoint markers, user marker and its position), the
\* references to them and the shell's state stay as they were.
C8_CameraActionsChangeOnlyCamera ==
  [][(last'.op \in {"recenter", "fitTrail"}) =>
       /\ UNCHANGED <<shellVars, asyncVars, geoVars>>
       /\ UNCHANGED <<viewMounted, leafletMap, userMarker, trailLayer, liveMaps>>
       /\ (leafletMap # 0 => /\ Val(mapObj').layers = Val(mapObj).layers
                             /\ Val(mapObj').id = Val(mapObj).id)]_vars
\* Recenter has flown to a reported place while the marker is no longer at
\* the default location.
C8_Witness ==
  /\ last.op = "recenter"
  /\ leafletMap # 0
  /\ Camera.op = "flyTo" /\ Camera.center # DefaultLocation
  /\ UserMarkerLatLng # DefaultLocation

\* n is x (given in tenths) rounded to the nearest integer, ties upwards.
IsRounded(n, tenths) == 10 * n - 5 <= tenths /\ tenths < 10 * n + 5

\* C9: while App is mounted the stored location is that of the most
\* recently delivered reading (the default before any reading), and the
\* stored altitude is the rounded altitude of the most recent reading that
\* reported one (absent before any such reading).
C9_LocationIsLatestReading ==
  appMounted =>
    /\ currentLocation = (IF IsNull(lastReading) THEN DefaultLocation
                          ELSE Val(lastReading).coords)
    /\ IsNull(currentAltitude) = IsNull(lastAltReading)
    /\ ~IsNull(lastAltReading) =>
         IsRounded(Val(currentAltitude), Val(Val(lastAltReading).altitude))
\* Two readings were delivered, the one-shot one last, and the stored altitude
\* was rounded up from 1670.5.
C9_Witness ==
  /\ appMounted
  /\ last.op = "oneShotPosition"
  /\ nReadings = 2
  /\ currentAltitude = Some(1671)

\* C10 as stated: after a reading the stored altitude is that reading's
\* altitude-or-unknown, so a reading without altitude leaves none stored.
C10_ReadingSupersedesWholesale ==
  (appMounted /\ ~IsNull(lastReading)) =>
    /\ currentLocation = Val(lastReading).coords
    /\ IsNull(Val(lastReading).altitude) => IsNull(currentAltitude)
\* C10 as amended: right after a reading is delivered the stored latitude and
\* longitude are the reading's; the stored altitude is the reading's rounded
\* altitude when it reports one and otherwise the altitude stored before.
C10_LocationSupersededAltitudeKept ==
  (appMounted /\ last.op \in {"oneShotPosition", "watchPosition"}) =>
    /\ currentLocation = last.reading.coords
    /\ IF IsNull(last.reading.altitude)
       THEN currentAltitude = last.altitudeBefore
       ELSE /\ ~IsNull(currentAltitude)
            /\ IsRounded(Val(currentAltitude), Val(last.reading.altitude))
\* A reading without altitude arrived and an earlier altitude is still stored.
C10_Witness ==
  /\ appMounted
  /\ last.op = "watchPosition"
  /\ IsNull(last.reading.altitude)
  /\ ~IsNull(currentAltitude)

\* C11: the position subscription is acquired once, when the shell mounts, and
\* is never replaced; while the shell is mounted it is live, and the teardown
\* cancels it with the handle watchPosition returned; after the teardown no
\* watch callback runs and the stored location and altitude never change.
C11_WatchAcquiredOnceCancelledOnTeardown ==
  /\ [](hasGeo => /\ watchId # 0
                  /\ clearedWatches \subseteq {watchId}
                  /\ appMounted <=> WatchActive)
  /\ [][/\ watchId' = watchId
        /\ ~appMounted => /\ last'.op # "watchPosition"
                          /\ UNCHANGED <<currentLocation, currentAltitude>>]_vars
C11_Witness ==
  /\ ~appMounted
  /\ watchId \in clearedWatches
  /\ ~IsNull(lastReading)
  /\ currentLocation = Val(lastReading).coords

\* C12: a 'Scan next' step leaves the landmark and the preview image absent
\* and changes no other stored value of the shell: not the tab, the loading
\* flag, the location, the altitude, the village or the weather, and not the
\* uploads in flight.
C12_ScanNextClearsOnlyLandmarkAndPreview ==
  [][last'.op = "scanNext" =>
       /\ landmark' = Null
       /\ previewImage' = Null
       /\ UNCHANGED <<activeTab, loading, currentLocation, currentAltitude, village,
                      weatherData, uploads, alerts, appMounted>>]_vars
C12_Witness ==
  /\ last.op = "scanNext"
  /\ landmark = Null /\ previewImage = Null
  /\ activeTab = "scanner"
  /\ loading
  /\ CallsInFlight # {}

\* C13 as stated: right after either startup fetch has failed, the stored
\* village and the stored weather are both absent, no alert was shown and
\* loading is cleared.
C13_FailureLeavesVillageAndWeatherAbsent ==
  last.op = "villageLoadRejected" =>
    /\ village = Null
    /\ weatherData = Null
    /\ alerts = 0
    /\ loading = FALSE

\* C13, amended: a failed startup fetch stores nothing, shows no alert and
\* clears loading; the weather stays absent either way, the village is absent
\* when the insight fetch failed and is the fetched insight, stored before
\* the search was issued, when the weather search failed.
C13_FailureKeepsWhatWasStored ==
  [][last'.op = "villageLoadRejected" =>
       /\ village' = village
       /\ weatherData' = Null
       /\ villagePc = "getVillageInsights" => village' = Null
       /\ villagePc = "getSearchInfo" => village' = Some(VillageData)
       /\ alerts' = alerts
       /\ loading' = FALSE
       /\ villagePc' = "done"]_vars
C13_Witness ==
  /\ last.op = "villageLoadRejected"
  /\ last.at = "getSearchInfo"
  /\ village = Some(VillageData)
  /\ weatherData = Null
  /\ loading = FALSE

\* C14: the text calculateTotalDistance returns for a waypoint sequence reads
\* as the hundredths of a kilometre nearest to the sum of the distances
\* between the sequence's consecutive pairs, each pair counted once (n-1
\* terms), and is "0.00" for a sequence of 0 or 1 points.
RECURSIVE SumOfPairs(_, _)
SumOfPairs(pts, pairs) ==
  IF pairs = {} THEN 0
  ELSE LET i == CHOOSE j \in pairs : TRUE
       IN  distanceTo(latLng(pts[i]), latLng(pts[i + 1])) + SumOfPairs(pts, pairs \ {i})
DigitValue(c) == CHOOSE d \in 0..9 : DigitChar(d) = c
RECURSIVE ParseDigits(_)
ParseDigits(text) ==
  IF text = <<>> THEN 0
  ELSE 10 * ParseDigits(SubSeq(text, 1, Len(text) - 1)) + DigitValue(text[Len(text)])
Hundredths(text) ==
  100 * ParseDigits(SubSeq(text, 1, Len(text) - 3))
    + ParseDigits(SubSeq(text, Len(text) - 1, Len(text)))
C14_TotalIsSumOfConsecutivePairs ==
  ~IsNull(distanceText) =>
    LET text == Val(distanceText)
        sum == SumOfPairs(points, 1..(Len(points) - 1))
    IN  /\ Len(text) >= 4
        /\ text[Len(text) - 2] = "."
        /\ 10 * Hundredths(text) - 5 <= sum
        /\ sum < 10 * Hundredths(text) + 5
        /\ Len(points) <= 1 => text = <<"0", ".", "0", "0">>
C14_Witness ==
  /\ ~IsNull(distanceText)
  /\ Len(points) = 3
  /\ points[1] # points[2] /\ points[2] # points[3]
  /\ Hundredths(Val(distanceText)) > 100

\* C15 as stated: right after the effect run that created the map, the camera
\* is centred on the live location at the initial zoom 13.
C15_InitialCameraOnLiveLocation ==
  (last.op = "mapEffect" /\ last.created) =>
    /\ Camera.op = "setView"
    /\ Camera.center = currentLocation
    /\ Camera.zoom = 13

\* C15, amended: right after the effect run that created the map, the camera
\* is the one fitBounds left: the smallest box holding every waypoint of the
\* trail, with padding 50, wherever the live location is; the user marker,
\* not the camera, is at the live location.
C15_InitialCameraFitsTrail ==
  (last.op = "mapEffect" /\ last.created) =>
    /\ viewMounted /\ leafletMap # 0
    /\ Camera.op = "fitBounds"
    /\ Camera.padding = <<50, 50>>
    /\ \A i \in 1..Len(MOCK_TREK_DATA) :
         /\ Camera.bounds.south <= MOCK_TREK_DATA[i].lat
         /\ MOCK_TREK_DATA[i].lat <= Camera.bounds.north
         /\ Camera.bounds.west <= MOCK_TREK_DATA[i].lng
         /\ MOCK_TREK_DATA[i].lng <= Camera.bounds.east
    /\ \E i, j, k, l \in 1..Len(MOCK_TREK_DATA) :
         Camera.bounds = [south |-> MOCK_TREK_DATA[i].lat, north |-> MOCK_TREK_DATA[j].lat,
                          west |-> MOCK_TREK_DATA[k].lng, east |-> MOCK_TREK_DATA[l].lng]
    /\ UserMarkerLatLng = currentLocation
C15_Witness ==
  /\ last.op = "mapEffect" /\ last.created
  /\ Camera.op = "fitBounds"
  /\ currentLocation # DefaultLocation

\* C16: right after a Recenter on a view that has its map, the camera flies
\* to the shell's stored location at zoom 15, and that location is the one of
\* the latest position update delivered (the default when there was none),
\* whether or not the view's effect has run for it yet.
C16_RecenterTargetsLatestLocation ==
  (last.op = "recenter" /\ leafletMap # 0) =>
    /\ Camera.op = "flyTo"
    /\ Camera.zoom = 15
    /\ Camera.center = currentLocation
    /\ Camera.center = IF IsNull(lastReading) THEN DefaultLocation
                       ELSE Val(lastReading).coords
C16_Witness ==
  /\ last.op = "recenter" /\ leafletMap # 0
  /\ nReadings = MaxReadings
  /\ effectDeps # Some(ViewProps)
  /\ UserMarkerLatLng # DefaultLocation
  /\ UserMarkerLatLng # currentLocation
  /\ Camera.center = Val(lastReading).coords

\* C17: whenever the view is mounted with its map and its effect has run for
\* the props of the latest render, the user marker is at the shell's stored
\* location.
C17_MarkerAtStoredLocation ==
  (viewMounted /\ leafletMap # 0 /\ effectDeps = Some(ViewProps)) =>
    UserMarkerLatLng = currentLocation
C17_Witness ==
  /\ viewMounted /\ leafletMap # 0 /\ effectDeps = Some(ViewProps)
  /\ Cardinality(liveMaps) = 2
  /\ last.op = "mapEffect" /\ ~last.created
  /\ UserMarkerLatLng = currentLocation
  /\ currentLocation # DefaultLocation
  /\ Camera.op \in {"flyTo", "flyToBounds"}

\* C18: whenever no upload is in flight and both a landmark and a preview
\* image are stored, the stored landmark is what the identification of that
\* preview image returned.
C18_LandmarkIsOfPreview ==
  (DOMAIN uploads = {} /\ ~IsNull(landmark) /\ ~IsNull(previewImage)) =>
    landmarkSource = previewImage

\* C19: in every state where an operation that set the loading flag is still
\* pending (an upload being read or identified, or the startup load before it
\* settles), the loading flag is true and the overlay is shown.
C19_LoadingWhilePending ==
  (appMounted /\ (DOMAIN uploads # {} \/ villagePc # "done")) => LoadingOverlayShown

====
